---- MODULE Spec2Model ----
(***************************************************************************)
(* The road-intersection simulation of src/src/main.rs as a state machine: *)
(* the vehicle movement and turning rule (Vehicle::new, Vehicle::update,   *)
(* Vehicle::is_off_screen), the world step (TrafficSimulation::update),    *)
(* and the main loop with its wall-clock spawn gate (main).                *)
(*                                                                         *)
(* Numbers.  Every f32 the program computes is an integer below 2^24       *)
(* (window coordinates, LANE_WIDTH / 2.0 = 15.0, steps of 2.0), so f32     *)
(* arithmetic is exact and positions are modelled as integers.             *)
(*                                                                         *)
(* Time.  The wall clock is counted in thirds of a millisecond, so that    *)
(* the frame sleep of 1_000_000_000 / 60 ns is the whole number FRAME;     *)
(* now_in_millis truncates the clock to milliseconds as as_millis() does.  *)
(* The epoch reading of the real clock (about 1.7e12 ms) is stood for by   *)
(* StartClock: the gate only reads differences of clock readings, and any  *)
(* start later than `delay` behaves alike.                                 *)
(***************************************************************************)
EXTENDS Integers, Sequences, FiniteSets, TLC

VARIABLES
    vehicles,          \* simulation.vehicles : Vec<Vehicle>
    last_spawn_time,   \* last_spawn_time : [u128; 4], milliseconds
    clock,             \* the wall clock SystemTime::now(), thirds of a ms
    pc,                \* position of main's loop: poll, update, render, sleep, exit, panic
    polled,            \* history: events taken from poll_iter in this iteration
    ticks,             \* history: calls of TrafficSimulation::update so far
    spawn_log,         \* history: the accepted spawns, in order
    removed,           \* history: the vehicles pruned so far, as they were pruned
    rejected,          \* history: spawn requests the gate refused in this iteration
    renders,           \* history: calls of TrafficSimulation::render so far
    frame,             \* history: loop iterations completed (sleeps returned)
    cooldown,          \* the spec's tick-counted gate (4.1), run beside the program's
    cooldown_adj       \* the same gate with a reset value one tick longer

vars == <<vehicles, last_spawn_time, clock, pc, polled, ticks, spawn_log,
          removed, rejected, renders, frame, cooldown, cooldown_adj>>

(***************************************************************************)
(* Program constants (main.rs:10-18, 260, 293).                            *)
(***************************************************************************)
WINDOW_WIDTH == 1000
WINDOW_HEIGHT == 800
VEHICLE_SPEED == 2
LANE_WIDTH == 30
CENTER_X == WINDOW_WIDTH \div 2
CENTER_Y == WINDOW_HEIGHT \div 2
OFF_SCREEN_MARGIN == 50
delay == 1000
TICKS_PER_SECOND == 60
FRAME == 50

(***************************************************************************)
(* Bounds of the model.                                                    *)
(***************************************************************************)
StartClock == 3000000
MaxEventsPerFrame == 2
MaxVehicles == 2
LifeTicks == 530
GateTicks == 63
JitterTicks == 3
StallFrame == 3003
SkewTicks == 3
OrderEvents == 3
DrainEvents == 1
SkewBack == 3000

Directions == {"up", "down", "right", "left"}
Routes == {"Straight", "TurnLeft", "TurnRight"}
Keycodes == {"Up", "Down", "Right", "Left", "Escape", "Other"}
SpawnKeys == {"Up", "Down", "Right", "Left"}
OrderRoutes == {"Straight", "TurnLeft"}

Range(s) == {s[k] : k \in 1..Len(s)}

(***************************************************************************)
(* Vehicle::new.  The route is drawn by rand inside new; the model takes   *)
(* it as an input.  id is a history field: the vehicle's index in          *)
(* spawn_log.                                                              *)
(***************************************************************************)
\* Variant of SpawnPosition with the lane offset halved.
SpawnPositionHalfLane(direction) ==
    CASE direction = "up" -> <<CENTER_X - LANE_WIDTH \div 2, WINDOW_HEIGHT>>
      [] direction = "down" -> <<CENTER_X + LANE_WIDTH \div 2, 0>>
      [] direction = "right" -> <<0, CENTER_Y + LANE_WIDTH \div 2>>
      [] direction = "left" -> <<WINDOW_WIDTH, CENTER_Y - LANE_WIDTH \div 2>>
      [] OTHER -> <<0, 0>>

SpawnPosition(direction) ==
    CASE direction = "up" -> <<CENTER_X - LANE_WIDTH, WINDOW_HEIGHT>>
      [] direction = "down" -> <<CENTER_X + LANE_WIDTH, 0>>
      [] direction = "right" -> <<0, CENTER_Y + LANE_WIDTH>>
      [] direction = "left" -> <<WINDOW_WIDTH, CENTER_Y - LANE_WIDTH>>
      [] OTHER -> <<0, 0>>

RouteColor(route_str) ==
    CASE route_str = "Straight" -> <<200, 200, 200>>
      [] route_str = "TurnLeft" -> <<100, 255, 100>>
      [] route_str = "TurnRight" -> <<100, 100, 255>>
      [] OTHER -> <<255, 255, 255>>

VehicleNew(direction, route_str, id) ==
    [x |-> SpawnPosition(direction)[1],
     y |-> SpawnPosition(direction)[2],
     direction |-> direction,
     initial_direction |-> direction,
     route |-> route_str,
     color |-> RouteColor(route_str),
     id |-> id]

(***************************************************************************)
(* Vehicle::update: the turn evaluation, then the translation.             *)
(***************************************************************************)
y_to_up == CENTER_Y + LANE_WIDTH \div 2
y_to_down == CENTER_Y - LANE_WIDTH \div 2
x_to_right == CENTER_X - LANE_WIDTH \div 2
x_to_left == CENTER_X + LANE_WIDTH \div 2

\* Variant of TurnEvaluation that matches on the current direction.
TurnEvaluationOnHeading(v) ==
    CASE v.direction = "up" ->
            IF v.route = "TurnLeft" /\ v.y <= y_to_up THEN "right"
            ELSE IF v.route = "TurnRight" /\ v.y <= y_to_down THEN "left"
            ELSE v.direction
      [] v.direction = "down" ->
            IF v.route = "TurnLeft" /\ v.y >= y_to_down THEN "left"
            ELSE IF v.route = "TurnRight" /\ v.y >= y_to_up THEN "right"
            ELSE v.direction
      [] v.direction = "right" ->
            IF v.route = "TurnLeft" /\ v.x >= x_to_right THEN "up"
            ELSE IF v.route = "TurnRight" /\ v.x >= x_to_left THEN "down"
            ELSE v.direction
      [] v.direction = "left" ->
            IF v.route = "TurnLeft" /\ v.x <= x_to_left THEN "down"
            ELSE IF v.route = "TurnRight" /\ v.x <= x_to_right THEN "up"
            ELSE v.direction
      [] OTHER -> v.direction

\* Variant of TurnEvaluation with the two thresholds of each arm exchanged.
TurnEvaluationSwapped(v) ==
    CASE v.initial_direction = "up" ->
            IF v.route = "TurnLeft" /\ v.y <= y_to_down THEN "right"
            ELSE IF v.route = "TurnRight" /\ v.y <= y_to_up THEN "left"
            ELSE v.direction
      [] v.initial_direction = "down" ->
            IF v.route = "TurnLeft" /\ v.y >= y_to_up THEN "left"
            ELSE IF v.route = "TurnRight" /\ v.y >= y_to_down THEN "right"
            ELSE v.direction
      [] v.initial_direction = "right" ->
            IF v.route = "TurnLeft" /\ v.x >= x_to_left THEN "up"
            ELSE IF v.route = "TurnRight" /\ v.x >= x_to_right THEN "down"
            ELSE v.direction
      [] v.initial_direction = "left" ->
            IF v.route = "TurnLeft" /\ v.x <= x_to_right THEN "down"
            ELSE IF v.route = "TurnRight" /\ v.x <= x_to_left THEN "up"
            ELSE v.direction
      [] OTHER -> v.direction

\* Variant of TurnEvaluation that tests the coordinate the step is about to
\* reach instead of the current one.
TurnEvaluationAhead(v) ==
    CASE v.initial_direction = "up" ->
            IF v.route = "TurnLeft" /\ v.y - VEHICLE_SPEED <= y_to_up THEN "right"
            ELSE IF v.route = "TurnRight" /\ v.y - VEHICLE_SPEED <= y_to_down THEN "left"
            ELSE v.direction
      [] v.initial_direction = "down" ->
            IF v.route = "TurnLeft" /\ v.y + VEHICLE_SPEED >= y_to_down THEN "left"
            ELSE IF v.route = "TurnRight" /\ v.y + VEHICLE_SPEED >= y_to_up THEN "right"
            ELSE v.direction
      [] v.initial_direction = "right" ->
            IF v.route = "TurnLeft" /\ v.x + VEHICLE_SPEED >= x_to_right THEN "up"
            ELSE IF v.route = "TurnRight" /\ v.x + VEHICLE_SPEED >= x_to_left THEN "down"
            ELSE v.direction
      [] v.initial_direction = "left" ->
            IF v.route = "TurnLeft" /\ v.x - VEHICLE_SPEED <= x_to_left THEN "down"
            ELSE IF v.route = "TurnRight" /\ v.x - VEHICLE_SPEED <= x_to_right THEN "up"
            ELSE v.direction
      [] OTHER -> v.direction

TurnEvaluation(v) ==
    CASE v.initial_direction = "up" ->
            IF v.route = "TurnLeft" /\ v.y <= y_to_up THEN "right"
            ELSE IF v.route = "TurnRight" /\ v.y <= y_to_down THEN "left"
            ELSE v.direction
      [] v.initial_direction = "down" ->
            IF v.route = "TurnLeft" /\ v.y >= y_to_down THEN "left"
            ELSE IF v.route = "TurnRight" /\ v.y >= y_to_up THEN "right"
            ELSE v.direction
      [] v.initial_direction = "right" ->
            IF v.route = "TurnLeft" /\ v.x >= x_to_right THEN "up"
            ELSE IF v.route = "TurnRight" /\ v.x >= x_to_left THEN "down"
            ELSE v.direction
      [] v.initial_direction = "left" ->
            IF v.route = "TurnLeft" /\ v.x <= x_to_left THEN "down"
            ELSE IF v.route = "TurnRight" /\ v.x <= x_to_right THEN "up"
            ELSE v.direction
      [] OTHER -> v.direction

\* Variant of Translation in which a vehicle heading down stands still.
TranslationParked(v, heading) ==
    CASE heading = "up" -> [v EXCEPT !.y = @ - VEHICLE_SPEED]
      [] heading = "right" -> [v EXCEPT !.x = @ + VEHICLE_SPEED]
      [] heading = "left" -> [v EXCEPT !.x = @ - VEHICLE_SPEED]
      [] OTHER -> v

Translation(v, heading) ==
    CASE heading = "up" -> [v EXCEPT !.y = @ - VEHICLE_SPEED]
      [] heading = "down" -> [v EXCEPT !.y = @ + VEHICLE_SPEED]
      [] heading = "right" -> [v EXCEPT !.x = @ + VEHICLE_SPEED]
      [] heading = "left" -> [v EXCEPT !.x = @ - VEHICLE_SPEED]
      [] OTHER -> v

\* Variant of VehicleUpdate that translates along the heading the call
\* started with.
VehicleUpdateStale(v) ==
    [Translation(v, v.direction) EXCEPT !.direction = TurnEvaluation(v)]

\* Variant of VehicleUpdate that also records the new heading as the
\* initial one.
VehicleUpdateRebase(v) ==
    LET heading == TurnEvaluation(v)
    IN  Translation([v EXCEPT !.direction = heading, !.initial_direction = heading],
                    heading)

VehicleUpdate(v) ==
    LET heading == TurnEvaluation(v)
    IN  Translation([v EXCEPT !.direction = heading], heading)

\* Variant of is_off_screen whose margin is one step of travel wider.
is_off_screen_lax(v) ==
    \/ v.x < -(OFF_SCREEN_MARGIN + VEHICLE_SPEED)
    \/ v.x > WINDOW_WIDTH + OFF_SCREEN_MARGIN + VEHICLE_SPEED
    \/ v.y < -(OFF_SCREEN_MARGIN + VEHICLE_SPEED)
    \/ v.y > WINDOW_HEIGHT + OFF_SCREEN_MARGIN + VEHICLE_SPEED

is_off_screen(v) ==
    \/ v.x < -OFF_SCREEN_MARGIN
    \/ v.x > WINDOW_WIDTH + OFF_SCREEN_MARGIN
    \/ v.y < -OFF_SCREEN_MARGIN
    \/ v.y > WINDOW_HEIGHT + OFF_SCREEN_MARGIN

(***************************************************************************)
(* TrafficSimulation::spawn_vehicle and TrafficSimulation::update.         *)
(***************************************************************************)
\* Variant of spawn_vehicle that inserts the new vehicle at the front.
spawn_vehicle_front(vs, direction, route_str, id) ==
    <<VehicleNew(direction, route_str, id)>> \o vs

spawn_vehicle(vs, direction, route_str, id) ==
    Append(vs, VehicleNew(direction, route_str, id))

UpdateAll(vs) == [k \in 1..Len(vs) |-> VehicleUpdate(vs[k])]

Retained(v) == ~is_off_screen(v)

\* Variant of SimulationUpdate that prunes before it moves the vehicles.
SimulationUpdatePruneFirst(vs) == UpdateAll(SelectSeq(vs, Retained))

SimulationUpdate(vs) == SelectSeq(UpdateAll(vs), Retained)

(***************************************************************************)
(* main: the clock, the key match and the spawn gate.                      *)
(***************************************************************************)
now_in_millis == clock \div 3

\* Variant of KeyDirection that names the direction of the Left key "west".
KeyDirectionWest(keycode) ==
    CASE keycode = "Up" -> "up"
      [] keycode = "Down" -> "down"
      [] keycode = "Right" -> "right"
      [] keycode = "Left" -> "west"

KeyDirection(keycode) ==
    CASE keycode = "Up" -> "up"
      [] keycode = "Down" -> "down"
      [] keycode = "Right" -> "right"
      [] keycode = "Left" -> "left"

\* Variant of timer_index with one timer for all four keys.
timer_index_shared(keycode) == 0

timer_index(keycode) ==
    CASE keycode = "Up" -> 0
      [] keycode = "Down" -> 1
      [] keycode = "Right" -> 2
      [] keycode = "Left" -> 3

\* Variant of SpawnAllowed that waits for twice the delay.
SpawnAllowedTwice(current_time, last) == current_time - last > 2 * delay

\* Variant of SpawnAllowed that accepts at exactly the delay.
SpawnAllowedInclusive(current_time, last) == current_time - last >= delay

SpawnAllowed(current_time, last) == current_time - last > delay

\* The outcomes of the u128 subtraction current_time - last: its value, or,
\* when current_time < last, a panic (overflow checks on, the debug profile)
\* or the difference wrapped modulo 2^128 (overflow checks off, the release
\* profile).
SubtractOutcomes(current_time, last) ==
    IF current_time >= last THEN {"value"} ELSE {"panic", "wrap"}

\* The gate's condition on an outcome that did not panic.  The wrapped
\* difference is 2^128 - (last - current_time), which is above delay for
\* every pair of millisecond readings of the clock.
GateOpen(outcome, current_time, last) ==
    IF outcome = "wrap" THEN current_time < last ELSE SpawnAllowed(current_time, last)

(***************************************************************************)
(* The tick-counted gate of the spec (4.1 SpawnThrottle).                  *)
(***************************************************************************)
SPAWN_COOLDOWN_TICKS == (delay * TICKS_PER_SECOND) \div 1000

TrySpawn(cd, i, reset) == IF cd[i] = 0 THEN [cd EXCEPT ![i] = reset] ELSE cd

TickCooldowns(cd) == [i \in DOMAIN cd |-> IF cd[i] > 0 THEN cd[i] - 1 ELSE 0]

(***************************************************************************)
(* State after construction (main.rs:258-261).                             *)
(***************************************************************************)
Init ==
    /\ vehicles = <<>>
    /\ last_spawn_time = [i \in 0..3 |-> 0]
    /\ clock = StartClock
    /\ pc = "poll"
    /\ polled = 0
    /\ ticks = 0
    /\ spawn_log = <<>>
    /\ removed = {}
    /\ rejected = 0
    /\ renders = 0
    /\ frame = 0
    /\ cooldown = [i \in 0..3 |-> 0]
    /\ cooldown_adj = [i \in 0..3 |-> 0]

(***************************************************************************)
(* One event of event_pump.poll_iter() (main.rs:264-289).                  *)
(***************************************************************************)
\* Variant of KeyDown in which a refused request restarts the direction's window.
KeyDownRearm(keycode, route_str) ==
    /\ pc = "poll"
    /\ polled' = polled + 1
    /\ UNCHANGED <<clock, ticks, removed, renders, frame>>
    /\ \/ /\ keycode \in SpawnKeys
          /\ LET current_time == now_in_millis
                 direction == KeyDirection(keycode)
                 i == timer_index(keycode)
             IN  \E outcome \in SubtractOutcomes(current_time, last_spawn_time[i]) :
                   IF outcome = "panic"
                   THEN /\ pc' = "panic"
                        /\ UNCHANGED <<vehicles, last_spawn_time, spawn_log, rejected,
                                       cooldown, cooldown_adj>>
                   ELSE /\ IF GateOpen(outcome, current_time, last_spawn_time[i])
                           THEN /\ vehicles' = spawn_vehicle(vehicles, direction, route_str,
                                                             Len(spawn_log) + 1)
                                /\ last_spawn_time' =
                                      [last_spawn_time EXCEPT ![i] = current_time]
                                /\ spawn_log' = Append(spawn_log,
                                       [direction |-> direction, time |-> current_time,
                                        tick |-> ticks])
                                /\ rejected' = rejected
                           ELSE /\ UNCHANGED <<vehicles, spawn_log>>
                                /\ last_spawn_time' =
                                      [last_spawn_time EXCEPT ![i] = current_time]
                                /\ rejected' = rejected + 1
                        /\ cooldown' = TrySpawn(cooldown, i, SPAWN_COOLDOWN_TICKS)
                        /\ cooldown_adj' = TrySpawn(cooldown_adj, i, SPAWN_COOLDOWN_TICKS + 1)
                        /\ pc' = pc
       \/ /\ keycode = "Escape"
          /\ pc' = "exit"
          /\ UNCHANGED <<vehicles, last_spawn_time, spawn_log, rejected, cooldown,
                         cooldown_adj>>
       \/ /\ keycode \notin SpawnKeys \cup {"Escape"}
          /\ pc' = pc
          /\ UNCHANGED <<vehicles, last_spawn_time, spawn_log, rejected, cooldown,
                         cooldown_adj>>

KeyDown(keycode, route_str) ==
    /\ pc = "poll"
    /\ polled' = polled + 1
    /\ UNCHANGED <<clock, ticks, removed, renders, frame>>
    /\ \/ /\ keycode \in SpawnKeys
          /\ LET current_time == now_in_millis
                 direction == KeyDirection(keycode)
                 i == timer_index(keycode)
             IN  \E outcome \in SubtractOutcomes(current_time, last_spawn_time[i]) :
                   IF outcome = "panic"
                   THEN /\ pc' = "panic"
                        /\ UNCHANGED <<vehicles, last_spawn_time, spawn_log, rejected,
                                       cooldown, cooldown_adj>>
                   ELSE /\ IF GateOpen(outcome, current_time, last_spawn_time[i])
                           THEN /\ vehicles' = spawn_vehicle(vehicles, direction, route_str,
                                                             Len(spawn_log) + 1)
                                /\ last_spawn_time' =
                                      [last_spawn_time EXCEPT ![i] = current_time]
                                /\ spawn_log' = Append(spawn_log,
                                       [direction |-> direction, time |-> current_time,
                                        tick |-> ticks])
                                /\ rejected' = rejected
                           ELSE /\ UNCHANGED <<vehicles, last_spawn_time, spawn_log>>
                                /\ rejected' = rejected + 1
                        /\ cooldown' = TrySpawn(cooldown, i, SPAWN_COOLDOWN_TICKS)
                        /\ cooldown_adj' = TrySpawn(cooldown_adj, i, SPAWN_COOLDOWN_TICKS + 1)
                        /\ pc' = pc
       \/ /\ keycode = "Escape"
          /\ pc' = "exit"
          /\ UNCHANGED <<vehicles, last_spawn_time, spawn_log, rejected, cooldown,
                         cooldown_adj>>
       \/ /\ keycode \notin SpawnKeys \cup {"Escape"}
          /\ pc' = pc
          /\ UNCHANGED <<vehicles, last_spawn_time, spawn_log, rejected, cooldown,
                         cooldown_adj>>

Quit ==
    /\ pc = "poll"
    /\ pc' = "exit"
    /\ polled' = polled + 1
    /\ UNCHANGED <<vehicles, last_spawn_time, clock, ticks, spawn_log, removed,
                   rejected, renders, frame, cooldown, cooldown_adj>>

OtherEvent ==
    /\ pc = "poll"
    /\ pc' = pc
    /\ polled' = polled + 1
    /\ UNCHANGED <<vehicles, last_spawn_time, clock, ticks, spawn_log, removed,
                   rejected, renders, frame, cooldown, cooldown_adj>>

\* Variant of PollDone that goes to the render call without the update call.
PollDoneToRender ==
    /\ pc = "poll"
    /\ pc' = "render"
    /\ UNCHANGED <<vehicles, last_spawn_time, clock, polled, ticks, spawn_log,
                   removed, rejected, renders, frame, cooldown, cooldown_adj>>

PollDone ==
    /\ pc = "poll"
    /\ pc' = "update"
    /\ UNCHANGED <<vehicles, last_spawn_time, clock, polled, ticks, spawn_log,
                   removed, rejected, renders, frame, cooldown, cooldown_adj>>

(***************************************************************************)
(* simulation.update(), simulation.render() and the frame sleep            *)
(* (main.rs:291-293).                                                      *)
(***************************************************************************)
Update ==
    /\ pc = "update"
    /\ vehicles' = SimulationUpdate(vehicles)
    /\ removed' = removed \cup (Range(UpdateAll(vehicles)) \ Range(vehicles'))
    /\ ticks' = ticks + 1
    /\ cooldown' = TickCooldowns(cooldown)
    /\ cooldown_adj' = TickCooldowns(cooldown_adj)
    /\ pc' = "render"
    /\ UNCHANGED <<last_spawn_time, clock, polled, spawn_log, rejected, renders,
                   frame>>

Render ==
    /\ pc = "render"
    /\ pc' = "sleep"
    /\ renders' = renders + 1
    /\ UNCHANGED <<vehicles, last_spawn_time, clock, polled, ticks, spawn_log,
                   removed, rejected, frame, cooldown, cooldown_adj>>

Sleep(duration) ==
    /\ pc = "sleep"
    /\ clock' = clock + duration
    /\ polled' = 0
    /\ rejected' = 0
    /\ frame' = frame + 1
    /\ pc' = "poll"
    /\ UNCHANGED <<vehicles, last_spawn_time, ticks, spawn_log, removed, renders,
                   cooldown, cooldown_adj>>

\* The system clock is set back by delta thirds of a millisecond (by the
\* user or by a time synchronisation service): SystemTime is not monotonic.
ClockSetBack(delta) ==
    /\ pc = "poll"
    /\ clock >= StartClock
    /\ clock - delta >= 0
    /\ clock' = clock - delta
    /\ UNCHANGED <<vehicles, last_spawn_time, pc, polled, ticks, spawn_log, removed,
                   rejected, renders, frame, cooldown, cooldown_adj>>

(***************************************************************************)
(* The environment: when events arrive and how long a frame lasts.         *)
(* Events are offered while the iteration has taken fewer than             *)
(* MaxEventsPerFrame of them and the world holds fewer than MaxVehicles.   *)
(***************************************************************************)
Offered == polled < MaxEventsPerFrame /\ Len(vehicles) < MaxVehicles

\* Input arrives in the first iteration; the loop then runs at its nominal
\* rate until every vehicle has left.
LifeInput == Offered /\ ticks = 0

NextLife ==
    \/ \E keycode \in Keycodes, route_str \in Routes :
          LifeInput /\ KeyDown(keycode, route_str)
    \/ LifeInput /\ Quit
    \/ LifeInput /\ OtherEvent
    \/ PollDone
    \/ Update
    \/ Render
    \/ ticks < LifeTicks /\ Sleep(FRAME)

SpecLife == Init /\ [][NextLife]_vars

\* Up to DrainEvents events arrive in the first iteration; the loop then
\* runs at its nominal rate.
DrainInput == polled < DrainEvents /\ ticks = 0

NextDrain ==
    \/ \E keycode \in Keycodes, route_str \in Routes :
          DrainInput /\ KeyDown(keycode, route_str)
    \/ DrainInput /\ Quit
    \/ DrainInput /\ OtherEvent
    \/ PollDone
    \/ Update
    \/ Render
    \/ ticks < LifeTicks /\ Sleep(FRAME)

\* The loop's own steps.  Nothing in the loop blocks except the frame sleep,
\* which returns, so an iteration that has begun goes on to its end and the
\* next one begins.
LoopStep == PollDone \/ Update \/ Render \/ (ticks < LifeTicks /\ Sleep(FRAME))

SpecDrain == Init /\ [][NextDrain]_vars /\ WF_vars(LoopStep)

\* Input arrives in the first iteration and again around the iteration in
\* which the cooldown of a first-iteration spawn runs out; the loop runs at
\* its nominal rate.
GateInput == Offered /\ (ticks = 0 \/ ticks >= SPAWN_COOLDOWN_TICKS - 1)

NextGate ==
    \/ \E keycode \in Keycodes, route_str \in Routes :
          GateInput /\ KeyDown(keycode, route_str)
    \/ GateInput /\ Quit
    \/ GateInput /\ OtherEvent
    \/ PollDone
    \/ Update
    \/ Render
    \/ ticks < GateTicks /\ Sleep(FRAME)

SpecGate == Init /\ [][NextGate]_vars

\* Input may arrive in every iteration, and an iteration may stall.
NextJitter ==
    \/ \E keycode \in Keycodes, route_str \in Routes :
          Offered /\ KeyDown(keycode, route_str)
    \/ Offered /\ Quit
    \/ Offered /\ OtherEvent
    \/ PollDone
    \/ Update
    \/ Render
    \/ \E duration \in {FRAME, StallFrame} : ticks < JitterTicks /\ Sleep(duration)

SpecJitter == Init /\ [][NextJitter]_vars

\* Input may arrive in every iteration, and the system clock may be set back
\* between two events.
NextSkew ==
    \/ \E keycode \in Keycodes, route_str \in Routes :
          Offered /\ KeyDown(keycode, route_str)
    \/ Offered /\ Quit
    \/ Offered /\ OtherEvent
    \/ PollDone
    \/ Update
    \/ Render
    \/ ticks < SkewTicks /\ Sleep(FRAME)
    \/ ClockSetBack(SkewBack)

SpecSkew == Init /\ [][NextSkew]_vars

\* Up to OrderEvents events arrive in the first iteration, with routes drawn
\* from OrderRoutes; the loop then runs at its nominal rate until every
\* vehicle has left.
OrderInput == polled < OrderEvents /\ ticks = 0

NextOrder ==
    \/ \E keycode \in Keycodes, route_str \in OrderRoutes :
          OrderInput /\ KeyDown(keycode, route_str)
    \/ OrderInput /\ Quit
    \/ OrderInput /\ OtherEvent
    \/ PollDone
    \/ Update
    \/ Render
    \/ ticks < LifeTicks /\ Sleep(FRAME)

SpecOrder == Init /\ [][NextOrder]_vars

(***************************************************************************)
(* Vocabulary of the properties.                                           *)
(***************************************************************************)
Live == Range(vehicles)

Ever == Range(vehicles) \cup removed

\* The step is a call of TrafficSimulation::update.
Ticked == ticks' = ticks + 1

\* The vehicle v as the step leaves it: in the collection, or pruned.
After(v) == CHOOSE w \in Range(vehicles') \cup removed' : w.id = v.id

InCollectionAfter(v) == \E w \in Range(vehicles') : w.id = v.id

Turned(v) == v.direction # v.initial_direction

\* The coordinate on the axis the vehicle entered along.
Along(v) == IF v.initial_direction \in {"up", "down"} THEN v.y ELSE v.x

\* The coordinate on the other axis.
Across(v) == IF v.initial_direction \in {"up", "down"} THEN v.x ELSE v.y

(***************************************************************************)
(* C1                                                                      *)
(***************************************************************************)
\* C1: a Straight vehicle keeps the direction it was spawned with from spawn
\* to removal; a TurnLeft or TurnRight vehicle changes direction only away
\* from initial_direction (so at most once, and never back to it), and has
\* changed it by the time it is removed.
C1_HeadingChangesOnce ==
    /\ [](\A v \in Ever : v.route = "Straight" => v.direction = v.initial_direction)
    /\ [](\A v \in removed : v.route # "Straight" => Turned(v))
    /\ [][\A v \in Live :
            After(v).direction # v.direction =>
                /\ v.route # "Straight"
                /\ v.direction = v.initial_direction
                /\ After(v).direction # v.initial_direction]_vars

\* A turning vehicle and a straight one have both run to their removal.
C1_Witness ==
    /\ \E v \in removed : v.route # "Straight" /\ Turned(v)
    /\ \E v \in removed : v.route = "Straight" /\ ~Turned(v)

(***************************************************************************)
(* C2                                                                      *)
(***************************************************************************)
Clockwise(d) ==
    CASE d = "up" -> "right"
      [] d = "right" -> "down"
      [] d = "down" -> "left"
      [] d = "left" -> "up"

\* Quarter turns, clockwise on the screen, that take "up" to d.
QuarterTurns(d) ==
    CASE d = "up" -> 0
      [] d = "right" -> 1
      [] d = "down" -> 2
      [] d = "left" -> 3

RECURSIVE Rotate(_, _)
Rotate(d, n) == IF n = 0 THEN d ELSE Rotate(Clockwise(d), n - 1)

\* The heading after the turn of a vehicle that approached "up".
NorthCase(route_str) == IF route_str = "TurnLeft" THEN "right" ELSE "left"

\* C2: the heading of a vehicle that has turned is the heading of the North
\* case ("up": TurnLeft ends "right", TurnRight ends "left") rotated by the
\* angle that takes "up" to the vehicle's approach direction.
C2_TurnHeadingRotationSymmetric ==
    \A v \in Ever :
        Turned(v) =>
            v.direction = Rotate(NorthCase(v.route), QuarterTurns(v.initial_direction))

(***************************************************************************)
(* C3                                                                      *)
(***************************************************************************)
\* Of the two thresholds centre +/- LANE_WIDTH / 2 on the travel axis, the
\* one on the side the vehicle comes from, and the other one.
NearThreshold(d) ==
    CASE d = "up" -> CENTER_Y + LANE_WIDTH \div 2
      [] d = "down" -> CENTER_Y - LANE_WIDTH \div 2
      [] d = "right" -> CENTER_X - LANE_WIDTH \div 2
      [] d = "left" -> CENTER_X + LANE_WIDTH \div 2

FarThreshold(d) ==
    CASE d = "up" -> CENTER_Y - LANE_WIDTH \div 2
      [] d = "down" -> CENTER_Y + LANE_WIDTH \div 2
      [] d = "right" -> CENTER_X + LANE_WIDTH \div 2
      [] d = "left" -> CENTER_X - LANE_WIDTH \div 2

\* The vehicle has come as far as coordinate t of its travel axis.
Reached(v, t) ==
    IF v.initial_direction \in {"up", "left"} THEN Along(v) <= t ELSE Along(v) >= t

\* An update turns a vehicle that has not turned yet exactly when the
\* vehicle has reached threshold(v).
TurnsAt(threshold(_)) ==
    \A v \in Live :
        (Ticked /\ v.route # "Straight" /\ ~Turned(v)) =>
            (Turned(After(v)) <=> Reached(v, threshold(v)))

RightNearLeftFar(v) ==
    IF v.route = "TurnRight" THEN NearThreshold(v.initial_direction)
    ELSE FarThreshold(v.initial_direction)

LeftNearRightFar(v) ==
    IF v.route = "TurnLeft" THEN NearThreshold(v.initial_direction)
    ELSE FarThreshold(v.initial_direction)

\* C3 as claimed: for every approach direction a TurnRight vehicle turns at
\* the threshold it reaches first and a TurnLeft vehicle at the one it
\* reaches second.
C3_RightTurnsAtNearThreshold == [][TurnsAt(RightNearLeftFar)]_vars

\* C3 as amended: for every approach direction a TurnLeft vehicle turns at
\* the threshold it reaches first (the nearer one) and a TurnRight vehicle
\* at the one it reaches second (the farther one).
C3_LeftTurnsAtNearThreshold == [][TurnsAt(LeftNearRightFar)]_vars

\* A TurnRight vehicle has turned, beyond the farther threshold, while a
\* TurnLeft vehicle that turned sits between the two thresholds.
C3_Witness ==
    /\ \E v \in Live :
          /\ v.route = "TurnRight" /\ Turned(v)
          /\ Reached(v, FarThreshold(v.initial_direction))
    /\ \E v \in Live :
          /\ v.route = "TurnLeft" /\ Turned(v)
          /\ ~Reached(v, FarThreshold(v.initial_direction))

(***************************************************************************)
(* C4                                                                      *)
(***************************************************************************)
NorthLeft(v) == v.initial_direction = "up" /\ v.route = "TurnLeft"

\* C4: with centre (500, 400) and lane width 30, a vehicle spawned "up" with
\* route TurnLeft has direction "up" wherever its y is above 415, and the
\* update call that makes its direction "right" is the first one that finds
\* y <= 415: an update of a vehicle still heading "up" turns it if y <= 415
\* and leaves it heading "up" otherwise.
C4_NorthLeftTurnsAt415 ==
    /\ [](CENTER_X = 500 /\ CENTER_Y = 400 /\ LANE_WIDTH = 30)
    /\ [](\A v \in Live : (NorthLeft(v) /\ v.y > 415) => v.direction = "up")
    /\ [][\A v \in Live :
            (Ticked /\ NorthLeft(v) /\ v.direction = "up") =>
                After(v).direction = (IF v.y <= 415 THEN "right" ELSE "up")]_vars

\* The vehicle has just turned: it heads "right" one step below 415 and has
\* made its first step to the right.
C4_Witness ==
    \E v \in Live :
        /\ NorthLeft(v) /\ v.direction = "right"
        /\ v.y <= 415 /\ v.y > 415 - VEHICLE_SPEED
        /\ v.x = SpawnPosition("up")[1] + VEHICLE_SPEED

(***************************************************************************)
(* C5                                                                      *)
(***************************************************************************)
\* w is v moved by VEHICLE_SPEED along heading, the other coordinate kept.
MovedAlong(v, w, heading) ==
    CASE heading = "up" -> w.y = v.y - VEHICLE_SPEED /\ w.x = v.x
      [] heading = "down" -> w.y = v.y + VEHICLE_SPEED /\ w.x = v.x
      [] heading = "right" -> w.x = v.x + VEHICLE_SPEED /\ w.y = v.y
      [] heading = "left" -> w.x = v.x - VEHICLE_SPEED /\ w.y = v.y

\* C5: every update moves a vehicle by exactly VEHICLE_SPEED along the
\* heading it has after that update's turn evaluation and leaves the other
\* coordinate alone; once the heading has left initial_direction the
\* coordinate on the original travel axis stays as it is.
C5_OneAxisPerUpdate ==
    [][\A v \in Live :
          Ticked =>
              /\ MovedAlong(v, After(v), After(v).direction)
              /\ Turned(After(v)) => Along(After(v)) = Along(v)]_vars

\* A vehicle has turned and travelled on its new axis.
C5_Witness ==
    \E v \in Live :
        /\ Turned(v)
        /\ Across(v) # Across(VehicleNew(v.initial_direction, v.route, v.id))
        /\ Along(v) # Along(VehicleNew(v.initial_direction, v.route, v.id))

(***************************************************************************)
(* C6                                                                      *)
(***************************************************************************)
\* C6 as claimed: a vehicle is still in the collection at the end of the
\* update in which its position first satisfies is_off_screen.
C6_PresentThroughOffScreenTick ==
    [][\A v \in Live :
          (Ticked /\ is_off_screen(After(v))) => InCollectionAfter(v)]_vars

\* C6 as amended: a vehicle is absent from the collection at the end of the
\* update in which its position first satisfies is_off_screen (and present
\* at the end of every earlier update), and is never in the collection
\* again afterwards.
C6_PrunedInOffScreenTick ==
    /\ [][\A v \in Live :
            Ticked => (is_off_screen(After(v)) <=> ~InCollectionAfter(v))]_vars
    /\ [][\A r \in removed : r \in removed' /\ ~InCollectionAfter(r)]_vars

\* A vehicle was pruned, off screen, while another one is still under way.
C6_Witness ==
    /\ \E r \in removed : is_off_screen(r)
    /\ vehicles # <<>>

(***************************************************************************)
(* Vocabulary of the spawn gate's properties.                              *)
(***************************************************************************)
\* The step accepted a spawn request and added a vehicle.
Spawned == Len(vehicles') = Len(vehicles) + 1

\* The entry of last_spawn_time that belongs to a direction.
EntryOf(direction) ==
    CASE direction = "up" -> 0
      [] direction = "down" -> 1
      [] direction = "right" -> 2
      [] direction = "left" -> 3

Accepted(direction) == {e \in Range(spawn_log) : e.direction = direction}

\* A spawn on this direction was accepted within the last `delay` ms.
InCooldownWindow(direction) ==
    \E e \in Accepted(direction) : now_in_millis - e.time <= delay

\* Calls of TrafficSimulation::update since the last accepted spawn on the
\* direction, or since the start if there was none.
TicksSinceSpawn(direction) ==
    LET at == {e.tick : e \in Accepted(direction)}
    IN  IF at = {} THEN ticks ELSE ticks - (CHOOSE t \in at : \A u \in at : u <= t)

(***************************************************************************)
(* C7                                                                      *)
(***************************************************************************)
\* C7: a spawn request is accepted, adding one vehicle of the requested
\* direction, exactly when no spawn on that same direction was accepted in
\* the current cooldown window, whatever was accepted on other directions;
\* an accepted spawn changes only its own direction's last_spawn_time entry
\* and a rejected one adds nothing.
C7_GatePerDirection ==
    [][\A keycode \in SpawnKeys, route_str \in Routes :
          KeyDown(keycode, route_str) =>
              LET direction == KeyDirection(keycode) IN
              /\ Spawned <=> ~InCooldownWindow(direction)
              /\ Spawned => vehicles'[Len(vehicles')].initial_direction = direction
              /\ ~Spawned => vehicles' = vehicles
              /\ \A j \in 0..3 :
                    j # EntryOf(direction) => last_spawn_time'[j] = last_spawn_time[j]]_vars

\* Two spawns on different directions were accepted within one window of
\* each other, and both vehicles are in the collection.
C7_Witness ==
    /\ Len(vehicles) = 2
    /\ \E a, b \in Range(spawn_log) :
          a.direction # b.direction /\ a.time - b.time <= delay /\ b.time - a.time <= delay

(***************************************************************************)
(* C8                                                                      *)
(***************************************************************************)
\* A spawn request made after at least n ticks without an accepted spawn on
\* its direction is accepted and adds a vehicle.
AcceptedAfter(n) ==
    \A keycode \in SpawnKeys, route_str \in Routes :
        (KeyDown(keycode, route_str) /\ TicksSinceSpawn(KeyDirection(keycode)) >= n)
            => Spawned

\* C8 as claimed: after SPAWN_COOLDOWN_TICKS ticks with no accepted spawn on
\* a direction the next spawn request for it is accepted.
C8_RecoveryAfterCooldownTicks == [][AcceptedAfter(SPAWN_COOLDOWN_TICKS)]_vars

\* C8 as amended: after SPAWN_COOLDOWN_TICKS + 1 ticks with no accepted
\* spawn on a direction the next spawn request for it is accepted.
C8_RecoveryAfterOneMoreTick == [][AcceptedAfter(SPAWN_COOLDOWN_TICKS + 1)]_vars

\* A direction has spawned, waited out SPAWN_COOLDOWN_TICKS + 1 ticks and
\* spawned again.
C8_Witness ==
    \E a, b \in Range(spawn_log) :
        a.direction = b.direction /\ b.tick - a.tick >= SPAWN_COOLDOWN_TICKS + 1

(***************************************************************************)
(* C9                                                                      *)
(***************************************************************************)
\* C9: any two accepted spawns on the same direction are at least
\* SPAWN_COOLDOWN_TICKS ticks apart.
C9_CooldownTicksBetweenSpawns ==
    \A m, n \in 1..Len(spawn_log) :
        (m < n /\ spawn_log[m].direction = spawn_log[n].direction) =>
            spawn_log[n].tick - spawn_log[m].tick >= SPAWN_COOLDOWN_TICKS

(***************************************************************************)
(* C10                                                                     *)
(***************************************************************************)
\* The program accepts a spawn request exactly when the tick-counted gate
\* cd does.
SameDecisions(cd) ==
    \A keycode \in SpawnKeys, route_str \in Routes :
        KeyDown(keycode, route_str) =>
            (Spawned <=> cd[EntryOf(KeyDirection(keycode))] = 0)

\* C10 as claimed: at 60 ticks per second the wall-clock gate accepts the
\* requests the tick-counted gate with reset value SPAWN_COOLDOWN_TICKS
\* accepts.
C10_SameAsTickGate == [][SameDecisions(cooldown)]_vars

\* C10 as amended: at 60 ticks per second the wall-clock gate accepts the
\* requests the tick-counted gate with reset value SPAWN_COOLDOWN_TICKS + 1
\* accepts.
C10_SameAsLongerTickGate == [][SameDecisions(cooldown_adj)]_vars

\* Both gates have just accepted a second spawn on a direction: the
\* program's timer entry is the current reading and the counter is at its
\* reset value.
C10_Witness ==
    \E d \in Directions :
        /\ Cardinality(Accepted(d)) = 2
        /\ last_spawn_time[EntryOf(d)] = now_in_millis
        /\ cooldown_adj[EntryOf(d)] = SPAWN_COOLDOWN_TICKS + 1

(***************************************************************************)
(* C11                                                                     *)
(***************************************************************************)
\* The time of the last accepted spawn on a direction, 0 if there was none.
LastAcceptedTime(direction) ==
    LET at == {e.time : e \in Accepted(direction)}
    IN  IF at = {} THEN 0 ELSE CHOOSE t \in at : \A u \in at : u <= t

\* C11: a spawn request that the gate refuses leaves the vehicle collection
\* and all four last_spawn_time entries as they were; hence, however many
\* requests were refused, each entry still holds the time of the direction's
\* last accepted spawn, and refusals do not prolong the window.
C11_RejectedRequestChangesNothing ==
    /\ [][rejected' = rejected + 1 =>
            /\ vehicles' = vehicles
            /\ last_spawn_time' = last_spawn_time]_vars
    /\ [](\A d \in Directions : last_spawn_time[EntryOf(d)] = LastAcceptedTime(d))

\* Two requests were refused in one iteration late in the window of the only
\* spawn so far, which was accepted in the first iteration.
C11_Witness ==
    /\ rejected = 2
    /\ Len(spawn_log) = 1
    /\ spawn_log[1].tick = 0
    /\ ticks >= SPAWN_COOLDOWN_TICKS - 1
    /\ now_in_millis > spawn_log[1].time

(***************************************************************************)
(* C12                                                                     *)
(***************************************************************************)
\* The step leaves main's loop.
Exits == pc # "exit" /\ pc' = "exit"

\* C12: when the loop ends on a Quit event or the Escape key, the iteration
\* in which the event was received has been completed: in that iteration
\* TrafficSimulation::update has run once and the frame has been rendered.
C12_ExitAfterIterationCompletes ==
    [][Exits => ticks' = frame' + 1 /\ renders' = frame' + 1]_vars

(***************************************************************************)
(* C13                                                                     *)
(***************************************************************************)
\* The step takes an event from poll_iter.
Polls == polled' = polled + 1

\* The step is a call of TrafficSimulation::render.
Rendered == renders' = renders + 1

\* The step ends an iteration: the frame sleep returns.
IterationEnds == frame' = frame + 1

\* C13: in every iteration the events are handled and the spawns applied
\* first, then TrafficSimulation::update is called, then render: events and
\* spawns only happen while the iteration has neither updated nor rendered,
\* update is only called in an iteration that has not updated yet, render
\* only after that iteration's update and only once, and an iteration that
\* ends has called update exactly once and render exactly once.
C13_InputThenUpdateThenRender ==
    /\ [](/\ ticks - frame \in {0, 1}
          /\ renders - frame \in {0, 1}
          /\ renders <= ticks)
    /\ [][/\ Polls \/ Spawned => ticks = frame /\ renders = frame
          /\ Ticked => ticks = frame /\ renders = frame
          /\ Rendered => ticks = frame + 1 /\ renders = frame
          /\ IterationEnds => ticks = frame + 1 /\ renders = frame + 1]_vars

\* A second iteration handled two events, accepted a spawn, updated and
\* rendered, after a first iteration that had accepted a spawn too.
C13_Witness ==
    /\ pc = "sleep"
    /\ frame = 1
    /\ polled = 2
    /\ Len(spawn_log) = 2
    /\ spawn_log[1].tick = 0
    /\ spawn_log[2].tick = 1

(***************************************************************************)
(* C14                                                                     *)
(***************************************************************************)
\* C14: no spawn key event and no call of TrafficSimulation::update fails,
\* whatever the wall clock returns: no step panics, and no step evaluates
\* current_time - last_spawn_time[i] with a wrapped result (a wrapped
\* difference opens the gate and replaces the entry by an earlier time).
C14_NoTransitionFails ==
    [][/\ pc' # "panic"
       /\ \A i \in DOMAIN last_spawn_time : last_spawn_time'[i] >= last_spawn_time[i]]_vars

(***************************************************************************)
(* C15                                                                     *)
(***************************************************************************)
\* The position lies in the window widened by the margin on every side.
WithinMargin(v) ==
    /\ -OFF_SCREEN_MARGIN <= v.x /\ v.x <= WINDOW_WIDTH + OFF_SCREEN_MARGIN
    /\ -OFF_SCREEN_MARGIN <= v.y /\ v.y <= WINDOW_HEIGHT + OFF_SCREEN_MARGIN

\* C15: at every point outside a call of TrafficSimulation::update, so at
\* the end of each update, at each render and right after a spawn, every
\* vehicle in the collection has -50 <= x <= WINDOW_WIDTH + 50 and
\* -50 <= y <= WINDOW_HEIGHT + 50.
C15_CollectionWithinMargin == \A v \in Live : WithinMargin(v)

\* At a render, one vehicle sits exactly on the margin, one update before it
\* leaves, after another vehicle has been pruned.
C15_Witness ==
    /\ pc = "render"
    /\ removed # {}
    /\ \E v \in Live :
          \/ v.x \in {-OFF_SCREEN_MARGIN, WINDOW_WIDTH + OFF_SCREEN_MARGIN}
          \/ v.y \in {-OFF_SCREEN_MARGIN, WINDOW_HEIGHT + OFF_SCREEN_MARGIN}

(***************************************************************************)
(* C16                                                                     *)
(***************************************************************************)
\* The vehicle is where a vehicle entering towards d starts: on the screen
\* edge it enters from, one lane width beside the centreline.
OnEntryLane(v, d) ==
    CASE d = "up" -> v.y = WINDOW_HEIGHT /\ v.x = CENTER_X - LANE_WIDTH
      [] d = "down" -> v.y = 0 /\ v.x = CENTER_X + LANE_WIDTH
      [] d = "right" -> v.x = 0 /\ v.y = CENTER_Y + LANE_WIDTH
      [] d = "left" -> v.x = WINDOW_WIDTH /\ v.y = CENTER_Y - LANE_WIDTH
      [] OTHER -> FALSE

\* C16: the vehicle that an accepted request for direction d adds has
\* direction = initial_direction = d, its along-axis coordinate on the screen
\* edge it enters from and its cross-axis coordinate LANE_WIDTH away from the
\* centreline, on opposite sides for opposite directions.
C16_SpawnedOnEntryLane ==
    [][Spawned =>
          LET v == vehicles'[Len(vehicles')]
              d == spawn_log'[Len(spawn_log')].direction
          IN  /\ v.direction = d
              /\ v.initial_direction = d
              /\ OnEntryLane(v, d)]_vars

\* Two vehicles of opposite directions have just been spawned, on opposite
\* sides of the centreline.
C16_Witness ==
    /\ ticks = 0
    /\ pc = "poll"
    /\ Len(vehicles) = 2
    /\ vehicles[1].initial_direction = "right"
    /\ vehicles[2].initial_direction = "left"
    /\ vehicles[1].y - CENTER_Y = CENTER_Y - vehicles[2].y
    /\ vehicles[1].y # vehicles[2].y

(***************************************************************************)
(* C17                                                                     *)
(***************************************************************************)
\* C17: no step changes a vehicle's initial_direction or route, up to and
\* including the update that removes it; so every vehicle that is or was in
\* the collection has the initial_direction it was constructed with.
C17_InitialDirectionAndRouteKept ==
    /\ [][\A v \in Live :
            /\ After(v).initial_direction = v.initial_direction
            /\ After(v).route = v.route]_vars
    /\ [](\A v \in Ever : v.initial_direction = spawn_log[v.id].direction)

\* A vehicle has turned and is still in the collection, with its
\* initial_direction as constructed, after another vehicle has been removed.
C17_Witness ==
    /\ removed # {}
    /\ \E v \in Live :
          /\ Turned(v)
          /\ v.route = "TurnRight"
          /\ v.initial_direction = spawn_log[v.id].direction

(***************************************************************************)
(* C18                                                                     *)
(***************************************************************************)
\* C18: the collection lists the vehicles in the order in which they were
\* spawned (id is the position of the vehicle's spawn among all accepted
\* spawns), whatever was spawned and pruned before.
C18_CollectionInSpawnOrder ==
    \A j, k \in 1..Len(vehicles) : j < k => vehicles[j].id < vehicles[k].id

\* The second of three vehicles has been pruned; the first and the third
\* are still in the collection.
C18_Witness ==
    /\ Len(vehicles) = 2
    /\ vehicles[1].id = 1
    /\ vehicles[2].id = 3
    /\ \E w \in removed : w.id = 2

(***************************************************************************)
(* C19                                                                     *)
(***************************************************************************)
\* The vehicle of the i-th accepted spawn is in the collection.
InWorld(i) == \E v \in Live : v.id = i

\* C19: while the loop keeps running (it has not ended on Quit or Escape),
\* every vehicle in the collection, whatever its direction and route, is
\* eventually removed from it.
C19_EveryVehicleLeaves ==
    \A i \in 1..DrainEvents : InWorld(i) ~> (~InWorld(i) \/ pc = "exit")

\* A vehicle that turned has been removed and the collection is empty
\* again, the loop still running.
C19_Witness ==
    /\ vehicles = <<>>
    /\ pc # "exit"
    /\ \E v \in removed : v.route = "TurnRight" /\ Turned(v)

(***************************************************************************)
(* C20                                                                     *)
(***************************************************************************)
\* C20: every vehicle that is or was in the collection has direction and
\* initial_direction among "up", "down", "left", "right" and route among
\* "Straight", "TurnLeft", "TurnRight"; so none was built or moved by a
\* wildcard arm (none has the wildcard colour).
C20_ClosedEnumerations ==
    \A v \in Ever :
        /\ v.direction \in Directions
        /\ v.initial_direction \in Directions
        /\ v.route \in Routes
        /\ v.color # RouteColor("")

\* The collection holds two vehicles that have both turned, one by each
\* turning route.
C20_Witness ==
    /\ Len(vehicles) = 2
    /\ \A v \in Live : Turned(v)
    /\ {v.route : v \in Live} = {"TurnLeft", "TurnRight"}

====
